---- MODULE Spec2Model ----
(***************************************************************************)
(* Model of app/services/llm_service.py: the per-user message coalescing   *)
(* of LLMClient.generate_response.  Coroutines interleave only where the   *)
(* code awaits an external collaborator: the history fetch (line 162) and  *)
(* the two completion calls (lines 174 and 199).  Everything between two   *)
(* such awaits is one atomic action.                                       *)
(***************************************************************************)
EXTENDS Integers, Sequences, FiniteSets, TLC

VARIABLES
  _processors,       \* LLMClient._processors: user id -> processor reference (NoEntry: key absent)
  heap,              \* the MessageProcessor objects ever constructed, by reference
  frame,             \* per call of generate_response: its position and local variables
  result,            \* what the latest step returned to its caller, if it was a return
  inbound            \* per user id: every message passed to generate_response, in call order

vars == <<_processors, heap, frame, result, inbound>>

---------------------------------------------------------------------------
(* Bounds *)

MaxTasks == 3
MaxToolCalls == 2
MaxHistory == 2

Tasks == 1..MaxTasks
Users == {1, 2}

\* the text of the n-th call of generate_response
Text(n) ==
  IF n = 1 THEN "hi" ELSE IF n = 2 THEN "how are you"
  ELSE IF n = 3 THEN "are you there" ELSE "bye"

Phase1Content == "Hello!"
Phase2Content == "Done."

---------------------------------------------------------------------------
(* Values *)

None == "None"
NoEntry == 0

NoResponse == [null |-> TRUE, content |-> None, tool_calls |-> <<>>]

\* dict.get(key): the value, or None when the key is absent
Get(msg, key) == IF key \in DOMAIN msg THEN msg[key] ELSE None

\* s[-n:] for n > 0
LastN(s, n) == IF n >= Len(s) THEN s ELSE SubSeq(s, Len(s) - n + 1, Len(s))

\* s[:-n] for n > 0
DropLastN(s, n) == IF n >= Len(s) THEN <<>> ELSE SubSeq(s, 1, Len(s) - n)

RECURSIVE Join(_, _)
Join(sep, s) ==
  IF s = <<>> THEN ""
  ELSE IF Len(s) = 1 THEN s[1]
  ELSE s[1] \o sep \o Join(sep, Tail(s))

---------------------------------------------------------------------------
(* MessageProcessor *)

MessageProcessor(user_id) == [user_id |-> user_id, locked |-> FALSE, messages |-> <<>>]

\* add_message inserting at the head
AddMessageAtHead(p, message) == [p EXCEPT !.messages = <<message>> \o @]

add_message(p, message) == [p EXCEPT !.messages = Append(@, message)]

\* get_pending_messages giving only the newest message
GetNewestPending(p) ==
  IF p.messages = <<>> THEN <<>> ELSE <<p.messages[Len(p.messages)]>>

get_pending_messages(p) == p.messages

clear_messages(p) == [p EXCEPT !.messages = <<>>]

has_messages(p) == p.messages # <<>>

\* is_locked when all processors share one lock
IsLockedShared(p) == \E q \in 1..Len(heap) : heap[q].locked

is_locked(p) == p.locked

---------------------------------------------------------------------------
(* ProcessorRegistry: LLMClient._processors *)

\* _get_processor without the membership test at line 58
GetProcessorAlwaysCreates(reg, hp, user_id) ==
  [registry  |-> [reg EXCEPT ![user_id] = Len(hp) + 1],
   heap      |-> Append(hp, MessageProcessor(user_id)),
   processor |-> Len(hp) + 1]

\* Get or create: the registry, the heap and the returned reference afterwards
_get_processor(reg, hp, user_id) ==
  IF reg[user_id] = NoEntry
  THEN [registry  |-> [reg EXCEPT ![user_id] = Len(hp) + 1],
        heap      |-> Append(hp, MessageProcessor(user_id)),
        processor |-> Len(hp) + 1]
  ELSE [registry |-> reg, heap |-> hp, processor |-> reg[user_id]]

\* _cleanup_processor without the has_messages test
CleanupProcessorIgnoresMessages(reg, hp, user_id) ==
  LET processor == reg[user_id] IN
  IF processor # NoEntry /\ ~is_locked(hp[processor])
  THEN [reg EXCEPT ![user_id] = NoEntry]
  ELSE reg

\* Remove the entry if it is empty and unlocked: the registry afterwards
_cleanup_processor(reg, hp, user_id) ==
  LET processor == reg[user_id] IN
  IF processor # NoEntry /\ ~has_messages(hp[processor]) /\ ~is_locked(hp[processor])
  THEN [reg EXCEPT ![user_id] = NoEntry]
  ELSE reg

\* _check_new_messages with the threshold off by one
CheckNewMessagesOffByOne(processor, original_count) ==
  Len(processor.messages) > original_count + 1

_check_new_messages(processor, original_count) ==
  Len(processor.messages) > original_count

---------------------------------------------------------------------------
(* Collaborators: history store, prompt provider, completion provider, tools *)

SystemPrompt == "You are Twiga."

StoredTurn(i) ==
  IF i % 2 = 1 THEN [role |-> "user", content |-> "hi"]
  ELSE [role |-> "assistant", content |-> "Hello!"]

\* what get_user_message_history may return
Histories == {[i \in 1..n |-> StoredTurn(i)] : n \in 0..MaxHistory}

ShortHistories == {h \in Histories : Len(h) <= 1}

\* the function names the completion may ask for, and the raw argument strings
ToolCallFunctions ==
  { [name |-> "search", arguments |-> "{}"],     \* registered, runs
    [name |-> "nope",   arguments |-> "{}"],     \* not registered
    [name |-> "search", arguments |-> "{"],      \* registered, arguments do not parse
    [name |-> "boom",   arguments |-> "{}"] }    \* registered, raises when invoked

CallId(i) == IF i = 1 THEN "call_1" ELSE IF i = 2 THEN "call_2" ELSE "call_3"

ToolCallLists ==
  UNION { { [i \in 1..n |-> [id |-> CallId(i), function |-> f[i]]] :
            f \in [1..n -> ToolCallFunctions] } : n \in 0..MaxToolCalls }

\* what client.chat.completions.create may give _generate_completion; an
\* exception inside it is caught at line 87 and None returned
Phase1Responses ==
  {NoResponse} \cup
  { [null |-> FALSE, content |-> Phase1Content, tool_calls |-> tcs] : tcs \in ToolCallLists }

ShortPhase1Responses == {r \in Phase1Responses : Len(r.tool_calls) <= 1}

Phase2Responses ==
  {NoResponse, [null |-> FALSE, content |-> Phase2Content, tool_calls |-> <<>>]}

\* tools_functions: name -> the JSON text of what the callable returns
tools_functions == [search |-> "[]", boom |-> "raises"]

json_loads_ok(arguments) == arguments = "{}"

invoke_ok(function_name) == tools_functions[function_name] # "raises"

---------------------------------------------------------------------------
(* HistoryFormatter *)

_format_conversation_history(messages) ==
  <<[role |-> "system", content |-> SystemPrompt]>> \o
  [i \in 1..Len(messages) |-> [role |-> messages[i].role, content |-> messages[i].content]]

\* lines 168-171
api_messages_of(formatted_messages, messages_to_process) ==
  DropLastN(formatted_messages, Len(messages_to_process)) \o
  <<[role |-> "user", content |-> Join("\n", messages_to_process)]>>

---------------------------------------------------------------------------
(* ToolCallExecutor *)

RECURSIVE json_dumps_calls(_)
json_dumps_calls(tool_calls) ==
  IF tool_calls = <<>> THEN ""
  ELSE LET tc == Head(tool_calls)
           one == "{\"function_name\": \"" \o tc.function.name \o
                  "\", \"arguments\": \"" \o tc.function.arguments \o
                  "\", \"tool_call_id\": \"" \o tc.id \o "\"}"
       IN IF Len(tool_calls) = 1 THEN one
          ELSE one \o ", " \o json_dumps_calls(Tail(tool_calls))

\* json.dumps(tool_calls_serializable), lines 97-108
json_dumps(tool_calls) == "[" \o json_dumps_calls(tool_calls) \o "]"

\* the body of the try at lines 113-126 appends a tool turn
ToolCallResolves(tool_call) ==
  /\ json_loads_ok(tool_call.function.arguments)
  /\ tool_call.function.name \in DOMAIN tools_functions
  /\ invoke_ok(tool_call.function.name)

\* the loop of _process_tool_calls with the try around the whole loop: the
\* first failing call ends it
RECURSIVE ToolTurnsStopAtFailure(_)
ToolTurnsStopAtFailure(tool_calls) ==
  IF tool_calls = <<>> THEN <<>>
  ELSE LET tool_call == Head(tool_calls) IN
       IF ToolCallResolves(tool_call)
       THEN <<[role |-> "tool",
               content |-> tools_functions[tool_call.function.name],
               tool_call_id |-> tool_call.id]>> \o ToolTurnsStopAtFailure(Tail(tool_calls))
       ELSE <<>>

\* the loop of _process_tool_calls emitting the tool turns newest first
RECURSIVE ToolTurnsReversed(_)
ToolTurnsReversed(tool_calls) ==
  IF tool_calls = <<>> THEN <<>>
  ELSE LET tool_call == Head(tool_calls) IN
       ToolTurnsReversed(Tail(tool_calls)) \o
       (IF ToolCallResolves(tool_call)
        THEN <<[role |-> "tool",
                content |-> tools_functions[tool_call.function.name],
                tool_call_id |-> tool_call.id]>>
        ELSE <<>>)

RECURSIVE ToolTurns(_)
ToolTurns(tool_calls) ==
  IF tool_calls = <<>> THEN <<>>
  ELSE LET tool_call == Head(tool_calls) IN
       (IF ToolCallResolves(tool_call)
        THEN <<[role |-> "tool",
                content |-> tools_functions[tool_call.function.name],
                tool_call_id |-> tool_call.id]>>
        ELSE <<>>) \o ToolTurns(Tail(tool_calls))

_process_tool_calls(messages, tool_calls) ==
  messages \o
  <<[role |-> "assistant", tool_calls |-> json_dumps(tool_calls)]>> \o
  ToolTurns(tool_calls)

\* lines 218-238
response_messages_with_tools(updated_messages, initial_response, final_response) ==
  LET tail == LastN(updated_messages, Len(initial_response.tool_calls) + 1) IN
  [i \in 1..Len(tail) |->
     [role |-> tail[i].role,
      content |-> IF i = 1 THEN Get(tail[i], "tool_calls") ELSE Get(tail[i], "content")]]
  \o <<[role |-> "assistant", content |-> final_response.content]>>

\* lines 240-245
response_messages_without_tools(initial_response) ==
  <<[role |-> "assistant", content |-> initial_response.content]>>

---------------------------------------------------------------------------
(* GenerationCoordinator: LLMClient.generate_response *)

\* a call's frame: its position, its arguments and locals, and what is kept
\* for the properties: the number of completion calls made, the include_tools
\* argument of each completion call of the current attempt, the number of
\* `continue`s taken; a returned call keeps its user id and the return
\* statement it left through
NoFrame ==
  [pc |-> "idle", user |-> 0, processor |-> 0, messages_to_process |-> <<>>,
   message_history |-> <<>>, api_messages |-> <<>>, initial_response |-> NoResponse, updated_messages |-> <<>>,
   completion_calls |-> 0, attempt_calls |-> <<>>, restarts |-> 0, exit |-> "none"]

NoReturn == [task |-> 0, absent |-> TRUE, turns |-> <<>>, exit |-> "none",
             completion_calls |-> 0, restarts |-> 0]

\* positions at which a call is inside `async with processor.lock`
Active == {"fetch", "phase1", "phase2"}

acquire(hp, p) == [hp EXCEPT ![p].locked = TRUE]

\* __aexit__ of `async with processor.lock`
release(hp, p) == [hp EXCEPT ![p].locked = FALSE]

\* a return statement: the frame goes away, the value goes to the caller
Return(t, fr, absent, turns, path) ==
  /\ frame' = [frame EXCEPT ![t] = [NoFrame EXCEPT !.pc = "done", !.user = fr.user,
                                                   !.exit = path]]
  /\ result' = [task |-> t, absent |-> absent, turns |-> turns, exit |-> path,
                completion_calls |-> fr.completion_calls, restarts |-> fr.restarts]

\* lines 153-162: the head of the loop, up to the await of the history fetch
LoopHead(t, fr, hp, reg) ==
  LET messages_to_process == get_pending_messages(hp[fr.processor]) IN
  IF messages_to_process = <<>>
  THEN LET hp1 == [hp EXCEPT ![fr.processor] = clear_messages(@)] IN
       /\ Return(t, fr, TRUE, <<>>, "empty")
       /\ _processors' = _cleanup_processor(reg, hp1, fr.user)
       /\ heap' = release(hp1, fr.processor)
  ELSE /\ frame' = [frame EXCEPT ![t] =
                      [fr EXCEPT !.pc = "fetch",
                                 !.messages_to_process = messages_to_process,
                                 !.message_history = <<>>,
                                 !.api_messages = <<>>,
                                 !.initial_response = NoResponse,
                                 !.updated_messages = <<>>,
                                 !.attempt_calls = <<>>]]
       /\ heap' = hp
       /\ _processors' = reg
       /\ result' = NoReturn

\* the entry gate without the is_locked test of line 146
EntryGateUntested(p) == IF p.locked THEN "waiting" ELSE "acquired"

\* lines 146-150: a call that finds the processor locked returns at once;
\* `async with` takes a free lock without suspending and would suspend the
\* call on a held one ("waiting")
EntryGate(p) ==
  IF is_locked(p) THEN "deferred"
  ELSE IF p.locked THEN "waiting" ELSE "acquired"

\* lines 139-162: entry gate, lock acquisition, first snapshot.  Calls are
\* numbered in the order they are made.
generate_response(t, user_id, message) ==
  /\ frame[t].pc = "idle"
  /\ IF t = 1 THEN TRUE ELSE frame[t - 1].pc # "idle"
  /\ LET got == _get_processor(_processors, heap, user_id)
         p   == got.processor
         hp  == [got.heap EXCEPT ![p] = add_message(@, message)]
         fr  == [frame[t] EXCEPT !.user = user_id, !.processor = p]
     IN IF EntryGate(hp[p]) = "deferred"
        THEN /\ Return(t, fr, TRUE, <<>>, "deferred")
             /\ heap' = hp
             /\ _processors' = got.registry
        ELSE IF EntryGate(hp[p]) = "waiting"
             THEN /\ frame' = [frame EXCEPT ![t] = [fr EXCEPT !.pc = "waiting"]]
                  /\ heap' = hp
                  /\ _processors' = got.registry
                  /\ result' = NoReturn
             ELSE LoopHead(t, fr, acquire(hp, p), got.registry)
  /\ inbound' = [inbound EXCEPT ![user_id] = Append(@, message)]

\* lines 162-176: the history fetch returns; the prompt is built and the
\* phase-1 completion is called
HistoryReturn(t, message_history) ==
  /\ frame[t].pc = "fetch"
  /\ LET formatted_messages == _format_conversation_history(message_history)
         api_messages == api_messages_of(formatted_messages, frame[t].messages_to_process)
     IN frame' = [frame EXCEPT ![t].pc = "phase1",
                               ![t].message_history = message_history,
                               ![t].api_messages = api_messages,
                               ![t].completion_calls = @ + 1,
                               ![t].attempt_calls = Append(@, TRUE)]
  /\ result' = NoReturn
  /\ UNCHANGED <<_processors, heap, inbound>>

\* the except branch returning without clearing the buffer
HistoryRaiseKeepsBuffer(t) ==
  /\ frame[t].pc = "fetch"
  /\ Return(t, frame[t], TRUE, <<>>, "history_failure")
  /\ heap' = release(heap, frame[t].processor)
  /\ UNCHANGED <<_processors, inbound>>

\* lines 254-258: the history fetch raises
HistoryRaise(t) ==
  /\ frame[t].pc = "fetch"
  /\ LET p == frame[t].processor
         hp1 == [heap EXCEPT ![p] = clear_messages(@)]
     IN /\ _processors' = _cleanup_processor(_processors, hp1, frame[t].user)
        /\ heap' = release(hp1, p)
  /\ Return(t, frame[t], TRUE, <<>>, "history_failure")
  /\ UNCHANGED inbound

\* lines 178-179
Phase1Failure(t) ==
  /\ frame[t].pc = "phase1"
  /\ Return(t, frame[t], TRUE, <<>>, "phase1_failure")
  /\ heap' = release(heap, frame[t].processor)
  /\ UNCHANGED <<_processors, inbound>>

\* lines 182-188, then the loop head
Phase1Restart(t, initial_response) ==
  /\ frame[t].pc = "phase1"
  /\ ~initial_response.null
  /\ _check_new_messages(heap[frame[t].processor], Len(frame[t].messages_to_process))
  /\ LoopHead(t, [frame[t] EXCEPT !.restarts = @ + 1], heap, _processors)
  /\ UNCHANGED inbound

\* tool calls processed ahead of the check for new messages
Phase1ToolCallsBeforeCheck(t, initial_response) ==
  /\ frame[t].pc = "phase1"
  /\ ~initial_response.null
  /\ initial_response.tool_calls # <<>>
  /\ frame' = [frame EXCEPT ![t].pc = "phase2",
                            ![t].initial_response = initial_response,
                            ![t].updated_messages =
                               _process_tool_calls(frame[t].api_messages,
                                                   initial_response.tool_calls),
                            ![t].completion_calls = @ + 1,
                            ![t].attempt_calls = Append(@, FALSE)]
  /\ result' = NoReturn
  /\ UNCHANGED <<_processors, heap, inbound>>

\* lines 191-202: tool calls are processed and the phase-2 completion is called
Phase1ToolCalls(t, initial_response) ==
  /\ frame[t].pc = "phase1"
  /\ ~initial_response.null
  /\ ~_check_new_messages(heap[frame[t].processor], Len(frame[t].messages_to_process))
  /\ initial_response.tool_calls # <<>>
  /\ frame' = [frame EXCEPT ![t].pc = "phase2",
                            ![t].initial_response = initial_response,
                            ![t].updated_messages =
                               _process_tool_calls(frame[t].api_messages,
                                                   initial_response.tool_calls),
                            ![t].completion_calls = @ + 1,
                            ![t].attempt_calls = Append(@, FALSE)]
  /\ result' = NoReturn
  /\ UNCHANGED <<_processors, heap, inbound>>

\* lines 247-252: success exit, with the lock still held during the cleanup
Success(t, response_messages) ==
  /\ LET p == frame[t].processor
         hp1 == [heap EXCEPT ![p] = clear_messages(@)]
     IN /\ _processors' = _cleanup_processor(_processors, hp1, frame[t].user)
        /\ heap' = release(hp1, p)
  /\ Return(t, frame[t], FALSE, response_messages, "success")
  /\ UNCHANGED inbound

\* lines 239-252
Phase1Success(t, initial_response) ==
  /\ frame[t].pc = "phase1"
  /\ ~initial_response.null
  /\ ~_check_new_messages(heap[frame[t].processor], Len(frame[t].messages_to_process))
  /\ initial_response.tool_calls = <<>>
  /\ Success(t, response_messages_without_tools(initial_response))

\* lines 205-206
Phase2Failure(t) ==
  /\ frame[t].pc = "phase2"
  /\ Return(t, frame[t], TRUE, <<>>, "phase2_failure")
  /\ heap' = release(heap, frame[t].processor)
  /\ UNCHANGED <<_processors, inbound>>

\* a phase-2 restart taken although no message arrived since the snapshot
Phase2RestartAtLeast(t, final_response) ==
  /\ frame[t].pc = "phase2"
  /\ ~final_response.null
  /\ Len(heap[frame[t].processor].messages) >= Len(frame[t].messages_to_process)
  /\ frame[t].restarts < MaxTasks
  /\ LoopHead(t, [frame[t] EXCEPT !.restarts = @ + 1], heap, _processors)
  /\ UNCHANGED inbound

\* lines 209-215, then the loop head
Phase2Restart(t, final_response) ==
  /\ frame[t].pc = "phase2"
  /\ ~final_response.null
  /\ _check_new_messages(heap[frame[t].processor], Len(frame[t].messages_to_process))
  /\ LoopHead(t, [frame[t] EXCEPT !.restarts = @ + 1], heap, _processors)
  /\ UNCHANGED inbound

\* lines 218-238, 247-252
Phase2Success(t, final_response) ==
  /\ frame[t].pc = "phase2"
  /\ ~final_response.null
  /\ ~_check_new_messages(heap[frame[t].processor], Len(frame[t].messages_to_process))
  /\ Success(t, response_messages_with_tools(frame[t].updated_messages,
                                             frame[t].initial_response, final_response))

---------------------------------------------------------------------------

Init ==
  /\ _processors = [u \in Users |-> NoEntry]
  /\ heap = <<>>
  /\ frame = [t \in Tasks |-> NoFrame]
  /\ result = NoReturn
  /\ inbound = [u \in Users |-> <<>>]

\* Concurrent calls for two users; the stored history has at most one turn
\* and completions ask for at most one tool call
Next ==
  \/ \E t \in Tasks, u \in Users : generate_response(t, u, Text(t))
  \/ \E t \in Tasks, h \in ShortHistories : HistoryReturn(t, h)
  \/ \E t \in Tasks : HistoryRaise(t)
  \/ \E t \in Tasks : Phase1Failure(t)
  \/ \E t \in Tasks, r \in ShortPhase1Responses : Phase1Restart(t, r)
  \/ \E t \in Tasks, r \in ShortPhase1Responses : Phase1ToolCalls(t, r)
  \/ \E t \in Tasks, r \in ShortPhase1Responses : Phase1Success(t, r)
  \/ \E t \in Tasks : Phase2Failure(t)
  \/ \E t \in Tasks, r \in Phase2Responses : Phase2Restart(t, r)
  \/ \E t \in Tasks, r \in Phase2Responses : Phase2Success(t, r)

Spec == Init /\ [][Next]_vars

\* Calls of one user, with every history and every list of tool calls
NextTurns ==
  \/ \E t \in Tasks : generate_response(t, 1, Text(t))
  \/ \E t \in Tasks, h \in Histories : HistoryReturn(t, h)
  \/ \E t \in Tasks : HistoryRaise(t)
  \/ \E t \in Tasks : Phase1Failure(t)
  \/ \E t \in Tasks, r \in Phase1Responses : Phase1Restart(t, r)
  \/ \E t \in Tasks, r \in Phase1Responses : Phase1ToolCalls(t, r)
  \/ \E t \in Tasks, r \in Phase1Responses : Phase1Success(t, r)
  \/ \E t \in Tasks : Phase2Failure(t)
  \/ \E t \in Tasks, r \in Phase2Responses : Phase2Restart(t, r)
  \/ \E t \in Tasks, r \in Phase2Responses : Phase2Success(t, r)

SpecTurns == Init /\ [][NextTurns]_vars

\* a step of call t after one of its three awaits (162, 174, 199) has returned
HolderStep(t) ==
  \/ \E h \in Histories : HistoryReturn(t, h)
  \/ HistoryRaise(t)
  \/ Phase1Failure(t)
  \/ \E r \in Phase1Responses : Phase1Restart(t, r)
  \/ \E r \in Phase1Responses : Phase1ToolCalls(t, r)
  \/ \E r \in Phase1Responses : Phase1Success(t, r)
  \/ Phase2Failure(t)
  \/ \E r \in Phase2Responses : Phase2Restart(t, r)
  \/ \E r \in Phase2Responses : Phase2Success(t, r)

\* Calls of one user where every history fetch and every completion call
\* comes back and the event loop resumes the call that awaited it
SpecLive == Init /\ [][NextTurns]_vars /\ \A t \in Tasks : WF_vars(HolderStep(t))

TypeOK ==
  /\ \A u \in Users : _processors[u] \in 0..Len(heap)
  /\ \A t \in Tasks : frame[t].pc \in {"idle", "waiting", "done"} \cup Active

---------------------------------------------------------------------------
(* Properties *)

ActiveCalls(u) == {t \in Tasks : frame[t].pc \in Active /\ frame[t].user = u}

\* C1: mutual exclusion -- in every reachable state, for each user id at most
\* one call of generate_response is past the lock acquisition and not yet
\* returned, whatever the interleaving at the three suspension points.
MutualExclusion ==
  \A u \in Users : Cardinality(ActiveCalls(u)) <= 1

\* a second call for the same user was made while the first held the lock
MutualExclusionWitness ==
  \E t1, t2 \in Tasks :
     /\ frame[t1].pc = "phase2"
     /\ frame[t2].pc = "done" /\ frame[t2].exit = "deferred"
     /\ frame[t2].user = frame[t1].user
     /\ t2 > t1

\* call t leaves through the return statement `path` in this step
Returns(t, path) ==
  /\ frame[t].pc # "done"
  /\ frame'[t].pc = "done"
  /\ frame'[t].exit = path

\* no lock-holding call for user u has returned yet
NoGenerationCompleted(u) ==
  \A t \in Tasks :
     (frame[t].pc = "done" /\ frame[t].user = u) => frame[t].exit = "deferred"

\* C2: loss-freedom -- at every success exit the snapshot the prompt was built
\* from is the whole pending buffer at that moment, the prompt ends with the
\* user turn joining exactly those messages in order, and the clear empties
\* the buffer; when no generation for the user completed before, the snapshot
\* is every message passed in for that user so far, however many restarts.
LossFreedom ==
  [][\A t \in Tasks :
       Returns(t, "success") =>
         LET p == frame[t].processor
             B == frame[t].messages_to_process
             prompt == frame[t].api_messages
         IN /\ B = heap[p].messages
            /\ prompt[Len(prompt)] = [role |-> "user", content |-> Join("\n", heap[p].messages)]
            /\ heap'[p].messages = <<>>
            /\ NoGenerationCompleted(frame[t].user) => B = inbound[frame[t].user]
    ]_vars

\* a success after a restart, answering both messages passed in for the user
LossFreedomWitness ==
  /\ result.exit = "success"
  /\ result.restarts >= 1
  /\ \E u \in Users :
       /\ frame[result.task].user = u
       /\ Len(inbound[u]) >= 2
       /\ \A t \in Tasks \ {result.task} :
            (frame[t].pc = "done" /\ frame[t].user = u) => frame[t].exit = "deferred"
       /\ heap[_processors[u]].messages = <<>>

\* the lock-holding call t returns in this step
HolderReturns(t) == frame[t].pc \in Active /\ frame'[t].pc = "done"

FailureExits == {"history_failure", "phase1_failure", "phase2_failure"}

\* C3: no-orphan buffer -- on every terminal path of the lock-holding call
\* (success, empty snapshot, history-fetch failure, null completion in phase 1
\* or phase 2) the user's buffer is empty afterwards and the lock is free.
NoOrphanBuffer ==
  [][\A t \in Tasks :
       HolderReturns(t) =>
         /\ heap'[frame[t].processor].messages = <<>>
         /\ ~heap'[frame[t].processor].locked
    ]_vars

\* C4 as claimed: the lock holder never returns while the buffer holds a
\* message that is not in its snapshot (one appended by a deferred caller).
HolderSeesDeferredBeforeReturning ==
  [][\A t \in Tasks :
       HolderReturns(t) =>
         heap[frame[t].processor].messages = frame[t].messages_to_process
    ]_vars

\* C4 as amended: while the buffer holds a message that is not in the lock
\* holder's snapshot, the holder's next step at a completion is a restart check
\* that re-enters the loop with a snapshot containing it, unless the attempt
\* fails first (the history fetch raises, or a completion gives None), in
\* which case the holder returns absent; it never returns an outcome.
DeferredSeenUnlessFailure ==
  [][\A t \in Tasks :
       (/\ frame[t].pc \in Active
        /\ Len(heap[frame[t].processor].messages) > Len(frame[t].messages_to_process)
        /\ frame'[t] # frame[t])
       =>
       \/ /\ frame[t].pc = "fetch" /\ frame'[t].pc = "phase1"
          /\ frame'[t].messages_to_process = frame[t].messages_to_process
       \/ /\ frame[t].pc \in {"phase1", "phase2"} /\ frame'[t].pc = "fetch"
          /\ frame'[t].restarts = frame[t].restarts + 1
          /\ frame'[t].messages_to_process = heap[frame[t].processor].messages
       \/ /\ frame'[t].pc = "done"
          /\ frame'[t].exit \in FailureExits
          /\ result'.task = t /\ result'.absent
    ]_vars

\* the holder restarted and its snapshot holds the text of a deferred call
DeferredSeenWitness ==
  \E t1, t2 \in Tasks :
     /\ frame[t2].pc = "done" /\ frame[t2].exit = "deferred"
     /\ frame[t1].pc = "fetch" /\ frame[t1].restarts >= 1
     /\ frame[t1].user = frame[t2].user
     /\ \E i \in 1..Len(frame[t1].messages_to_process) :
          frame[t1].messages_to_process[i] = Text(t2)

\* the turns of the outcome that the tool turns of a turn list stand for
OutcomeToolTurns(tool_turns) ==
  [i \in 1..Len(tool_turns) |-> [role |-> "tool", content |-> tool_turns[i].content]]

\* C5: for every phase-1 result with tool-call requests, whichever of them
\* resolve, the successful outcome is exactly one assistant turn echoing all
\* raw requests, one tool turn per resolved call, and the final assistant turn
\* with the phase-2 content -- and no turn of any other role.
ToolOutcomeShape ==
  [][\A t \in Tasks :
       (frame[t].pc = "phase2" /\ Returns(t, "success")) =>
         result'.turns =
           <<[role |-> "assistant",
              content |-> json_dumps(frame[t].initial_response.tool_calls)]>> \o
           OutcomeToolTurns(ToolTurns(frame[t].initial_response.tool_calls)) \o
           <<[role |-> "assistant", content |-> Phase2Content]>>
    ]_vars

\* C6: a processor whose buffer is empty and whose lock is free is not in the
\* registry -- once a call has reached a terminal path and returned, the
\* registry has no entry for the user.
EvictedWhenIdle ==
  \A u \in Users :
     _processors[u] # NoEntry =>
       has_messages(heap[_processors[u]]) \/ is_locked(heap[_processors[u]])

PromptShape ==
  \A t \in Tasks :
     frame[t].pc \in {"phase1", "phase2"} =>
       frame[t].api_messages =
         <<[role |-> "system", content |-> SystemPrompt]>> \o
         DropLastN(frame[t].message_history, Len(frame[t].messages_to_process)) \o
         <<[role |-> "user", content |-> Join("\n", frame[t].messages_to_process)]>>

\* C9: restart on new arrival -- a completion that returns (phase 1 or phase
\* 2) while the buffer holds more than |B| entries gives no outcome: unless
\* the result is None, the call re-enters the loop with the whole buffer as
\* its snapshot and none of the attempt's results kept; with the buffer at
\* |B| it does not restart.  For "hi" then "how are you" the prompt built from
\* the second snapshot ends with the user turn "hi\nhow are you".
RestartOnNewArrival ==
  [][\A t \in Tasks :
       /\ (/\ frame[t].pc \in {"phase1", "phase2"}
           /\ frame'[t] # frame[t]
           /\ Len(heap[frame[t].processor].messages) > Len(frame[t].messages_to_process))
          =>
          \/ /\ frame'[t].pc = "fetch"
             /\ frame'[t].restarts = frame[t].restarts + 1
             /\ frame'[t].messages_to_process = heap'[frame[t].processor].messages
             /\ heap' = heap
             /\ frame'[t].initial_response = NoResponse
             /\ frame'[t].updated_messages = <<>>
             /\ result' = NoReturn
          \/ /\ frame'[t].pc = "done"
             /\ frame'[t].exit = (IF frame[t].pc = "phase1" THEN "phase1_failure"
                                  ELSE "phase2_failure")
             /\ result'.absent
       /\ (/\ frame[t].pc \in {"phase1", "phase2"}
           /\ Len(heap[frame[t].processor].messages) <= Len(frame[t].messages_to_process))
          => frame'[t].pc # "fetch"
       /\ (/\ frame[t].pc = "fetch" /\ frame'[t].pc = "phase1"
           /\ frame[t].messages_to_process = <<"hi", "how are you">>)
          => frame'[t].api_messages[Len(frame'[t].api_messages)] =
               [role |-> "user", content |-> "hi\nhow are you"]
    ]_vars

\* scenario A: the second attempt runs on ["hi", "how are you"]
RestartWitness ==
  \E t \in Tasks :
     /\ frame[t].pc = "phase1"
     /\ frame[t].restarts = 1
     /\ frame[t].messages_to_process = <<"hi", "how are you">>
     /\ frame[t].api_messages[Len(frame[t].api_messages)].content = "hi\nhow are you"

\* C10: evict removes the entry iff the buffer is empty and the lock free; in
\* every reachable state a processor with buffered messages or a held lock is
\* the registry's entry for its user, and a lock holder's processor is that
\* entry.
NeverEvictedWhileBusy ==
  /\ \A u \in Users :
       _processors[u] # NoEntry =>
         ( _cleanup_processor(_processors, heap, u)[u] = NoEntry
           <=> (~has_messages(heap[_processors[u]]) /\ ~is_locked(heap[_processors[u]])) )
  /\ \A u \in Users :
       \A v \in Users \ {u} :
          _cleanup_processor(_processors, heap, u)[v] = _processors[v]
  /\ \A p \in 1..Len(heap) :
       (has_messages(heap[p]) \/ is_locked(heap[p])) => _processors[heap[p].user_id] = p
  /\ \A t \in Tasks :
       frame[t].pc \in Active =>
         /\ _processors[frame[t].user] = frame[t].processor
         /\ is_locked(heap[frame[t].processor])

\* one user's processor is locked, the other's is unlocked with a buffered
\* message (left by a failed completion), and both are in the registry
NeverEvictedWitness ==
  \E u, v \in Users :
     /\ _processors[u] # NoEntry /\ _processors[v] # NoEntry
     /\ is_locked(heap[_processors[u]])
     /\ ~is_locked(heap[_processors[v]]) /\ has_messages(heap[_processors[v]])

IsPrefix(a, b) == Len(a) <= Len(b) /\ SubSeq(b, 1, Len(a)) = a

\* C11: a step changes a user's buffer only by appending the text of a new
\* call for that user to the tail (while the lock is held, that call returns
\* deferred), or by emptying it in the step in which the call holding that
\* processor's lock returns through its success or a failure exit; so while a
\* generation runs the buffer only grows and the holder's snapshot stays a
\* prefix of it.
PendingOnlyGrows ==
  [][/\ \A p \in 1..Len(heap) :
          \/ heap'[p].messages = heap[p].messages
          \/ \E t \in Tasks :
               /\ frame[t].pc = "idle" /\ frame'[t].pc # "idle"
               /\ frame'[t].user = heap[p].user_id
               /\ heap'[p].messages = Append(heap[p].messages, Text(t))
               /\ heap[p].locked => (frame'[t].pc = "done" /\ frame'[t].exit = "deferred")
          \/ \E t \in Tasks :
               /\ HolderReturns(t)
               /\ frame[t].processor = p
               /\ frame[t].user = heap[p].user_id
               /\ heap[p].locked
               /\ frame'[t].exit \in {"success"} \cup FailureExits
               /\ heap'[p].messages = <<>>
     /\ \A t \in Tasks :
          frame'[t].pc \in Active =>
            IsPrefix(frame'[t].messages_to_process, heap'[frame'[t].processor].messages)
    ]_vars

\* two deferred calls appended behind the holder's snapshot, in arrival order
PendingOnlyGrowsWitness ==
  \E t1, t2, t3 \in Tasks :
     /\ t1 < t2 /\ t2 < t3
     /\ frame[t1].pc = "phase1"
     /\ frame[t2].exit = "deferred" /\ frame[t3].exit = "deferred"
     /\ frame[t2].user = frame[t1].user /\ frame[t3].user = frame[t1].user
     /\ frame[t1].messages_to_process = <<Text(t1)>>
     /\ heap[frame[t1].processor].messages = <<Text(t1), Text(t2), Text(t3)>>

\* C12: cross-user independence -- a new call for a user returns deferred
\* exactly when that user's own lock is held and otherwise takes that lock in
\* the same step (it never waits), whatever the state of the other user's
\* lock; and a step of a call for one user leaves the other user's processor
\* (buffer and lock), registry entry and inbound messages unchanged.
CrossUserIndependence ==
  [][\A t \in Tasks :
       /\ (frame[t].pc = "idle" /\ frame'[t].pc # "idle") =>
            LET u == frame'[t].user
                held == _processors[u] # NoEntry /\ heap[_processors[u]].locked
            IN /\ held => (frame'[t].pc = "done" /\ frame'[t].exit = "deferred")
               /\ ~held => /\ frame'[t].pc = "fetch"
                           /\ frame'[t].processor = _processors'[u]
                           /\ heap'[frame'[t].processor].locked
       /\ frame'[t] # frame[t] =>
            /\ \A p \in 1..Len(heap) :
                 heap[p].user_id # frame'[t].user => heap'[p] = heap[p]
            /\ \A v \in Users \ {frame'[t].user} :
                 _processors'[v] = _processors[v] /\ inbound'[v] = inbound[v]
    ]_vars

\* the later call, for the other user, took its lock while the first call
\* held its own, and its outcome arrives first
CrossUserWitness ==
  \E t1, t2 \in Tasks :
     /\ t1 < t2
     /\ frame[t1].user # frame[t2].user
     /\ frame[t1].pc \in {"phase1", "phase2"}
     /\ result.task = t2 /\ result.exit = "success" /\ result.restarts = 0

\* the other order: the earlier call's outcome arrives while the later call,
\* for the other user, is still running
CrossUserOtherOrder ==
  \E t1, t2 \in Tasks :
     /\ t1 < t2
     /\ frame[t1].user # frame[t2].user
     /\ frame[t2].pc \in {"phase1", "phase2"}
     /\ result.task = t1 /\ result.exit = "success" /\ result.restarts = 0

\* C13: every return hands back either absent or a non-empty list of
\* role/content turns, and it is absent exactly when the call did not leave
\* through the success exit; a failure exit (history fetch, completion of
\* either phase) makes no further completion call and the call stays
\* returned; when tool calls are processed, every call that resolves gets its
\* tool turn whatever its siblings do, the phase-2 completion is called, and a
\* success after unresolved tool calls still returns turns.
TurnsOrAbsent ==
  [][\A t \in Tasks :
       /\ (frame[t].pc # "done" /\ frame'[t].pc = "done") =>
            /\ result'.task = t
            /\ result'.absent <=> frame'[t].exit # "success"
            /\ result'.absent => result'.turns = <<>>
            /\ ~result'.absent =>
                 /\ result'.turns # <<>>
                 /\ \A i \in 1..Len(result'.turns) :
                      DOMAIN result'.turns[i] = {"role", "content"}
       /\ \A path \in FailureExits :
            Returns(t, path) => result'.completion_calls = frame[t].completion_calls
       /\ frame[t].pc = "done" => frame'[t] = frame[t]
       /\ (frame[t].pc = "phase1" /\ frame'[t].pc = "phase2") =>
            LET tcs == frame'[t].initial_response.tool_calls
                upd == frame'[t].updated_messages
            IN /\ \A i \in 1..Len(tcs) :
                    ToolCallResolves(tcs[i]) <=>
                      \E k \in 1..Len(upd) : Get(upd[k], "tool_call_id") = tcs[i].id
               /\ frame'[t].completion_calls = frame[t].completion_calls + 1
    ]_vars

\* the first tool call failed, its sibling ran, and phase 2 was called
TurnsOrAbsentWitness ==
  \E t \in Tasks :
     /\ frame[t].pc = "phase2"
     /\ Len(frame[t].initial_response.tool_calls) = 2
     /\ ~ToolCallResolves(frame[t].initial_response.tool_calls[1])
     /\ ToolCallResolves(frame[t].initial_response.tool_calls[2])
     /\ frame[t].updated_messages[Len(frame[t].updated_messages)].tool_call_id = "call_2"
     /\ frame[t].completion_calls = 2

\* positions of the requests whose name is registered and whose parse and
\* invocation succeed
ResolvedIndices(tool_calls) ==
  {i \in 1..Len(tool_calls) : ToolCallResolves(tool_calls[i])}

\* position of the k-th such request
KthResolved(tool_calls, k) ==
  CHOOSE i \in ResolvedIndices(tool_calls) :
    Cardinality({j \in ResolvedIndices(tool_calls) : j < i}) = k - 1

\* C14: the turn list given to the phase-2 completion is the phase-1 prompt,
\* then one assistant turn echoing all raw requests, then exactly one tool
\* turn, carrying the call id, per request that resolves, in the order of the
\* requests; requests that do not resolve contribute nothing.
Phase2TurnList ==
  \A t \in Tasks :
     frame[t].pc = "phase2" =>
       LET tcs == frame[t].initial_response.tool_calls
           api == frame[t].api_messages
           upd == frame[t].updated_messages
           n   == Cardinality(ResolvedIndices(tcs))
       IN /\ Len(upd) = Len(api) + 1 + n
          /\ SubSeq(upd, 1, Len(api)) = api
          /\ upd[Len(api) + 1] = [role |-> "assistant", tool_calls |-> json_dumps(tcs)]
          /\ \A k \in 1..n :
               upd[Len(api) + 1 + k] =
                 [role |-> "tool",
                  content |-> tools_functions[tcs[KthResolved(tcs, k)].function.name],
                  tool_call_id |-> tcs[KthResolved(tcs, k)].id]

\* two resolving requests: the echo of both, then their tool turns in order
Phase2TurnListWitness ==
  \E t \in Tasks :
     /\ frame[t].pc = "phase2"
     /\ Len(frame[t].initial_response.tool_calls) = 2
     /\ LastN(frame[t].updated_messages, 3) =
          << [role |-> "assistant",
              tool_calls |->
                "[{\"function_name\": \"search\", \"arguments\": \"{}\", \"tool_call_id\": \"call_1\"}, {\"function_name\": \"search\", \"arguments\": \"{}\", \"tool_call_id\": \"call_2\"}]"],
             [role |-> "tool", content |-> "[]", tool_call_id |-> "call_1"],
             [role |-> "tool", content |-> "[]", tool_call_id |-> "call_2"] >>

\* the order of the positions of a call
PositionOrder ==
  { <<"idle", "fetch">>, <<"idle", "done">>,
    <<"fetch", "phase1">>, <<"fetch", "done">>,
    <<"phase1", "fetch">>, <<"phase1", "phase2">>, <<"phase1", "done">>,
    <<"phase2", "fetch">>, <<"phase2", "done">> }

\* C15: an attempt goes snapshot, history fetch, phase-1 completion with
\* tools, restart check, tool execution, phase-2 completion without tools,
\* restart check.  Tools run and phase 2 is called only from phase 1 of the
\* same attempt, with a non-null result that carries tool calls and with the
\* buffer still at |B|; a success straight from phase 1 belongs to an attempt
\* with exactly one completion call and returns the single assistant turn
\* with the phase-1 content.
AttemptOrder ==
  [][\A t \in Tasks :
       /\ frame'[t].pc # frame[t].pc => <<frame[t].pc, frame'[t].pc>> \in PositionOrder
       /\ frame'[t].pc = "fetch" =>
            frame'[t].attempt_calls = <<>> /\ frame'[t].messages_to_process # <<>>
       /\ frame'[t].pc = "phase1" => frame'[t].attempt_calls = <<TRUE>>
       /\ frame'[t].pc = "phase2" => frame'[t].attempt_calls = <<TRUE, FALSE>>
       /\ (frame'[t].pc \in Active
             /\ frame'[t].completion_calls # frame[t].completion_calls) =>
            /\ frame'[t].completion_calls = frame[t].completion_calls + 1
            /\ <<frame[t].pc, frame'[t].pc>> \in {<<"fetch", "phase1">>, <<"phase1", "phase2">>}
       /\ (frame'[t].updated_messages # frame[t].updated_messages
             /\ frame'[t].updated_messages # <<>>) =>
            (frame[t].pc = "phase1" /\ frame'[t].pc = "phase2")
       /\ (frame[t].pc = "phase1" /\ frame'[t].pc = "phase2") =>
            /\ ~frame'[t].initial_response.null
            /\ frame'[t].initial_response.tool_calls # <<>>
            /\ Len(heap[frame[t].processor].messages) = Len(frame[t].messages_to_process)
            /\ frame'[t].messages_to_process = frame[t].messages_to_process
            /\ frame'[t].restarts = frame[t].restarts
       /\ (frame[t].pc = "phase1" /\ Returns(t, "success")) =>
            /\ frame[t].attempt_calls = <<TRUE>>
            /\ result'.completion_calls = frame[t].completion_calls
            /\ result'.turns = <<[role |-> "assistant", content |-> Phase1Content]>>
    ]_vars

\* after one restart, the second attempt has made its phase-1 call, processed
\* the tool calls and made its phase-2 call
AttemptOrderWitness ==
  \E t \in Tasks :
     /\ frame[t].pc = "phase2"
     /\ frame[t].restarts = 1
     /\ frame[t].attempt_calls = <<TRUE, FALSE>>
     /\ frame[t].completion_calls = 3
     /\ Len(frame[t].messages_to_process) = 2

\* C16: no call ever waits on a held lock: a call returns deferred right
\* after its append or takes the lock in the step of its append, so the
\* snapshot of a lock holder is never empty and no call leaves through the
\* empty-snapshot branch.
NoCallWaits ==
  \A t \in Tasks :
     /\ frame[t].pc # "waiting"
     /\ frame[t].exit # "empty"
     /\ result.exit # "empty"
     /\ frame[t].pc \in Active =>
          /\ frame[t].messages_to_process # <<>>
          /\ heap[frame[t].processor].locked
     /\ (frame[t].pc = "done" /\ frame[t].exit = "deferred") =>
          \E h \in 1..(t - 1) : frame[h].user = frame[t].user /\ frame[h].pc # "idle"

\* a call made after a holder finished and after a deferred call takes the
\* free lock at once and snapshots its own message
NoCallWaitsWitness ==
  \E t1, t2, t3 \in Tasks :
     /\ t1 < t2 /\ t2 < t3
     /\ frame[t1].user = frame[t3].user /\ frame[t2].user = frame[t3].user
     /\ frame[t1].pc = "done" /\ frame[t1].exit = "success"
     /\ frame[t2].pc = "done" /\ frame[t2].exit = "deferred"
     /\ frame[t3].pc = "fetch"
     /\ frame[t3].restarts = 0
     /\ frame[t3].messages_to_process = <<Text(t3)>>

\* call t goes back to the loop head in this step
RestartStep(t) == frame[t].pc \in {"phase1", "phase2"} /\ frame'[t].pc = "fetch"

\* the calls that returned deferred after call t was made, for the user of t
DeferredAppends(t, u) ==
  {d \in Tasks : d > t /\ frame[d].pc = "done" /\ frame[d].exit = "deferred"
                       /\ frame[d].user = u}

\* every lock of the processors of user u is free
LockFree(u) == \A q \in 1..Len(heap) : heap[q].user_id = u => ~heap[q].locked

\* C17: a restart takes a snapshot strictly longer than the one before, with
\* the one before as a prefix; the restarts of a lock-holding call never
\* exceed the messages appended by deferred callers while it holds the lock;
\* and when every history fetch and completion call comes back, a
\* lock-holding call eventually returns and leaves the lock free.
RestartsTerminate ==
  /\ [][\A t \in Tasks :
          RestartStep(t) =>
             /\ Len(frame'[t].messages_to_process) > Len(frame[t].messages_to_process)
             /\ IsPrefix(frame[t].messages_to_process, frame'[t].messages_to_process)
             /\ frame'[t].restarts = frame[t].restarts + 1]_vars
  /\ [](\A t \in Tasks :
          /\ frame[t].pc \in Active =>
               frame[t].restarts <= Cardinality(DeferredAppends(t, frame[t].user))
          /\ (result.task = t /\ result.exit \notin {"none", "deferred"}) =>
               result.restarts <= Cardinality(DeferredAppends(t, frame[t].user)))
  /\ \A t \in Tasks :
        (frame[t].pc \in Active)
          ~> (frame[t].pc = "done" /\ result.task = t /\ LockFree(frame[t].user))

\* a lock-holding call succeeds after two restarts, one for each of the two
\* calls that returned deferred while it held the lock
RestartsTerminateWitness ==
  /\ result.task = 1
  /\ result.exit = "success"
  /\ result.restarts = 2
  /\ Cardinality(DeferredAppends(1, 1)) = 2
  /\ LockFree(1)

====
